---- MODULE Spec2Model ----
(***************************************************************************)
(* Model of the task management service of src/app.py: the in-memory       *)
(* TaskManager store (create_task, get_task, get_all_tasks,                *)
(* update_task_status, delete_task) and the Flask routes of create_app     *)
(* that wrap it.                                                           *)
(*                                                                         *)
(* Python values are modelled by records that keep their type, so that the *)
(* truthiness tests and isinstance checks of the code decide what they     *)
(* decide in Python.  Text whose characters matter (title, description) is *)
(* a sequence of one-character strings; a status word is an atom.          *)
(***************************************************************************)
EXTENDS Integers, Sequences, FiniteSets, TLC

VARIABLES
    tasks,            \* TaskManager.tasks: the list of task dictionaries
    task_id_counter,  \* TaskManager.task_id_counter
    now,              \* the value the last datetime.now() read returned
    last,             \* the TaskManager call made in this step and its outcome
    request,          \* the HTTP request served in this step (NoRequest: a direct call)
    response,         \* the HTTP response produced in this step
    returned,         \* history: the ids returned by successful create_task calls, in order
    deleted,          \* history: the ids whose delete_task call returned True
    threads           \* the create_task calls that run concurrently: each one's position

vars ==
    <<tasks, task_id_counter, now, last, request, response, returned, deleted, threads>>

----------------------------------------------------------------------------
(* Bounds of the model *)

\* create_task succeeds at most MaxCreates times in a behaviour
MaxCreates == 2

\* the clock takes the values 0..MaxClock
MaxClock == 1

\* the number of threads that serve requests at the same time
NumThreads == 2

----------------------------------------------------------------------------
(* Python values *)

PyStr(cs) == [type |-> "str", chars |-> cs, num |-> 0]
PyNone == [type |-> "NoneType", chars |-> <<>>, num |-> 0]
PyInt(n) == [type |-> "int", chars |-> <<>>, num |-> n]
\* a list of n elements (only its length matters to the code)
PyList(n) == [type |-> "list", chars |-> <<>>, num |-> n]

\* bool(v): the truth value Python gives v
Truthy(v) ==
    CASE v.type = "str" -> Len(v.chars) > 0
      [] v.type = "NoneType" -> FALSE
      [] v.type = "int" -> v.num # 0
      [] v.type = "list" -> v.num > 0

\* the characters str.strip() removes
Whitespace == {" ", "\t"}

RECURSIVE lstrip(_)
lstrip(cs) ==
    IF cs # <<>> /\ Head(cs) \in Whitespace THEN lstrip(Tail(cs)) ELSE cs

RECURSIVE rstrip(_)
rstrip(cs) ==
    IF cs # <<>> /\ cs[Len(cs)] \in Whitespace
    THEN rstrip(SubSeq(cs, 1, Len(cs) - 1))
    ELSE cs

\* str.strip(): leading and trailing whitespace removed
strip(cs) == rstrip(lstrip(cs))

\* a status argument: a str (an atom) or a value of another type
StatusStr(w) == [type |-> "str", word |-> w]
StatusNonStr == [type |-> "int", word |-> "5"]

----------------------------------------------------------------------------
(* TaskManager *)

VALID_STATUSES == {"pending", "in_progress", "completed"}

\* None, where a task dictionary is expected
NoTask == [id |-> 0]

\* faulty variant: the isinstance check forgotten
TitleRejectedNoType(title) == ~Truthy(title)

\* the guard of create_task: the title is rejected
TitleRejected(title) == ~Truthy(title) \/ title.type # "str"

\* faulty variant: any string accepted as a status
StatusRejectedLax(status) == status.type # "str"

\* the guard of update_task_status: the status is rejected
StatusRejected(status) == ~(status.type = "str" /\ status.word \in VALID_STATUSES)

\* faulty variant: the first task taken when no task has the id
IndexOfDefaultFirst(ts, task_id) ==
    IF \E i \in 1..Len(ts) : ts[i].id = task_id
    THEN CHOOSE i \in 1..Len(ts) :
            /\ ts[i].id = task_id
            /\ \A j \in 1..(i - 1) : ts[j].id # task_id
    ELSE IF ts # <<>> THEN 1 ELSE 0

\* the position of the first task whose id equals task_id, 0 when there is none
IndexOf(ts, task_id) ==
    IF \E i \in 1..Len(ts) : ts[i].id = task_id
    THEN CHOOSE i \in 1..Len(ts) :
            /\ ts[i].id = task_id
            /\ \A j \in 1..(i - 1) : ts[j].id # task_id
    ELSE 0

\* faulty variant: the id taken for a position in the list
get_taskByPosition(ts, task_id) ==
    IF task_id \in 1..Len(ts) THEN ts[task_id] ELSE NoTask

\* get_task: the first task with that id, or None
get_task(ts, task_id) ==
    IF IndexOf(ts, task_id) = 0 THEN NoTask ELSE ts[IndexOf(ts, task_id)]

\* faulty variant: the newest task first
get_all_tasksReversed(ts) == [i \in 1..Len(ts) |-> ts[Len(ts) + 1 - i]]

\* get_all_tasks: the list itself
get_all_tasks(ts) == ts

\* faulty variant: the last element removed, whatever x is
ListRemoveLast(ts, x) == SubSeq(ts, 1, Len(ts) - 1)

\* list.remove(x): the list without its first element equal to x
ListRemove(ts, x) ==
    LET i == CHOOSE i \in 1..Len(ts) :
                /\ ts[i] = x
                /\ \A j \in 1..(i - 1) : ts[j] # x
    IN  SubSeq(ts, 1, i - 1) \o SubSeq(ts, i + 1, Len(ts))

\* the counter after a successful create
NextCounter(c) == c + 1

\* faulty variant: the id taken from the length of the list
NewTaskLenId(title, description, t1, t2) ==
    [id |-> Len(tasks) + 1,
     title |-> PyStr(strip(title.chars)),
     description |-> PyStr(strip(description.chars)),
     status |-> "pending",
     created_at |-> t1,
     updated_at |-> t2]

\* the dictionary create_task builds; t1, t2 are its two datetime.now() reads
NewTask(title, description, t1, t2) ==
    [id |-> task_id_counter,
     title |-> PyStr(strip(title.chars)),
     description |-> PyStr(strip(description.chars)),
     status |-> "pending",
     created_at |-> t1,
     updated_at |-> t2]

\* the outcome of create_task(title, description): the exception raised, the
\* value returned and the store afterwards
CreateOutcome(title, description, t1, t2) ==
    IF TitleRejected(title)
    THEN [exc |-> "ValueError", ret |-> NoTask, tasks |-> tasks,
          counter |-> task_id_counter, now |-> now]
    ELSE IF description.type # "str"
    THEN [exc |-> "AttributeError", ret |-> NoTask, tasks |-> tasks,
          counter |-> task_id_counter, now |-> now]
    ELSE [exc |-> "none", ret |-> NewTask(title, description, t1, t2),
          tasks |-> Append(tasks, NewTask(title, description, t1, t2)),
          counter |-> NextCounter(task_id_counter), now |-> t2]

\* create_task(title, description) reaches its datetime.now() reads
CreateSucceeds(title, description) ==
    ~TitleRejected(title) /\ description.type = "str"

\* faulty variant: updated_at left as it was
UpdatedTaskNoStamp(task, status, t) == [task EXCEPT !.status = status.word]

\* the task update_task_status leaves in place of task
UpdatedTask(task, status, t) ==
    [task EXCEPT !.status = status.word, !.updated_at = t]

\* faulty variant: the lookup made before the status check
UpdateOutcomeLookupFirst(task_id, status, t) ==
    IF IndexOf(tasks, task_id) = 0
    THEN [exc |-> "none", ret |-> NoTask, tasks |-> tasks, now |-> now]
    ELSE IF StatusRejected(status)
    THEN [exc |-> "ValueError", ret |-> NoTask, tasks |-> tasks, now |-> now]
    ELSE LET i == IndexOf(tasks, task_id) IN
         [exc |-> "none", ret |-> UpdatedTask(tasks[i], status, t),
          tasks |-> [tasks EXCEPT ![i] = UpdatedTask(tasks[i], status, t)],
          now |-> t]

\* faulty variant: the updated task moved to the end of the list
UpdateOutcomeMoveToEnd(task_id, status, t) ==
    IF StatusRejected(status)
    THEN [exc |-> "ValueError", ret |-> NoTask, tasks |-> tasks, now |-> now]
    ELSE IF IndexOf(tasks, task_id) = 0
    THEN [exc |-> "none", ret |-> NoTask, tasks |-> tasks, now |-> now]
    ELSE LET i == IndexOf(tasks, task_id) IN
         [exc |-> "none", ret |-> UpdatedTask(tasks[i], status, t),
          tasks |-> Append(SubSeq(tasks, 1, i - 1) \o SubSeq(tasks, i + 1, Len(tasks)),
                           UpdatedTask(tasks[i], status, t)),
          now |-> t]

\* the outcome of update_task_status(task_id, status); t is its datetime.now() read
UpdateOutcome(task_id, status, t) ==
    IF StatusRejected(status)
    THEN [exc |-> "ValueError", ret |-> NoTask, tasks |-> tasks, now |-> now]
    ELSE IF IndexOf(tasks, task_id) = 0
    THEN [exc |-> "none", ret |-> NoTask, tasks |-> tasks, now |-> now]
    ELSE LET i == IndexOf(tasks, task_id) IN
         [exc |-> "none", ret |-> UpdatedTask(tasks[i], status, t),
          tasks |-> [tasks EXCEPT ![i] = UpdatedTask(tasks[i], status, t)],
          now |-> t]

\* update_task_status(task_id, status) reaches its datetime.now() read
UpdateSucceeds(task_id, status) ==
    ~StatusRejected(status) /\ IndexOf(tasks, task_id) # 0

\* the outcome of delete_task(task_id)
DeleteOutcome(task_id) ==
    IF get_task(tasks, task_id) # NoTask
    THEN [ret |-> TRUE, tasks |-> ListRemove(tasks, get_task(tasks, task_id))]
    ELSE [ret |-> FALSE, tasks |-> tasks]

----------------------------------------------------------------------------
(* Inputs *)

\* titles a caller may pass: '', ' ', ' a ', None, 123, []
TitleInputs ==
    {PyStr(<<>>), PyStr(<<" ">>), PyStr(<<" ", "a", " ">>),
     PyNone, PyInt(123), PyList(0)}

\* descriptions a caller may pass: '' (the default), None
DescriptionInputs == {PyStr(<<>>), PyNone}

\* status arguments of a direct call: the three valid words and an invalid word
StatusInputs == {StatusStr(w) : w \in VALID_STATUSES \cup {"bogus"}}

\* task ids a caller may ask for (MaxCreates + 1 is never assigned)
IdInputs == 1..(MaxCreates + 1)

\* the values a datetime.now() read may return after a read that returned t:
\* the clock stands still or advances
Reads(t) == {u \in t..(t + 1) : u <= MaxClock}

\* the reads of a call that reads the clock only when `reads` holds
ReadsIf(reads, t) == IF reads THEN Reads(t) ELSE {t}

----------------------------------------------------------------------------
(* The state after construction *)

NoCall == [op |-> "none", task_id |-> 0, title |-> PyNone, status |-> StatusNonStr,
           exc |-> "none", ret |-> NoTask, ok |-> FALSE, list |-> <<>>]

NoRequest == [method |-> "none", path |-> "none", task_id |-> 0]

NoResponse == [code |-> 0, body |-> [none |-> TRUE]]

\* the threads of the server (app.run(threaded=True))
Threads == 1..NumThreads

\* a thread that has not entered create_task
IdleThread == [pc |-> "idle", task |-> NoTask, tmp |-> 0]

Init ==
    /\ threads = [t \in Threads |-> IdleThread]
    /\ tasks = <<>>
    /\ task_id_counter = 1
    /\ now = 0
    /\ last = NoCall
    /\ request = NoRequest
    /\ response = NoResponse
    /\ returned = <<>>
    /\ deleted = {}

----------------------------------------------------------------------------
(* Direct calls of the TaskManager methods *)

\* the record of a call: its arguments and its outcome
Call(op, task_id, title, status, exc, ret, ok, list) ==
    [op |-> op, task_id |-> task_id, title |-> title, status |-> status,
     exc |-> exc, ret |-> ret, ok |-> ok, list |-> list]

\* the effect of create_task(title, description) on the store and the histories
DoCreate(title, description, t1, t2) ==
    LET out == CreateOutcome(title, description, t1, t2) IN
    /\ out.exc = "none" => task_id_counter <= MaxCreates
    /\ tasks' = out.tasks
    /\ task_id_counter' = out.counter
    /\ now' = out.now
    /\ last' = Call("create_task", 0, title, StatusNonStr, out.exc, out.ret, FALSE, <<>>)
    /\ returned' = IF out.exc = "none" THEN Append(returned, out.ret.id) ELSE returned
    /\ UNCHANGED deleted

\* the effect of update_task_status(task_id, status)
DoUpdate(task_id, status, t) ==
    LET out == UpdateOutcome(task_id, status, t) IN
    /\ tasks' = out.tasks
    /\ now' = out.now
    /\ last' = Call("update_task_status", task_id, PyNone, status, out.exc, out.ret,
                    FALSE, <<>>)
    /\ UNCHANGED <<task_id_counter, returned, deleted>>

\* the effect of delete_task(task_id)
DoDelete(task_id) ==
    LET out == DeleteOutcome(task_id) IN
    /\ tasks' = out.tasks
    /\ last' = Call("delete_task", task_id, PyNone, StatusNonStr, "none", NoTask,
                    out.ret, <<>>)
    /\ deleted' = IF out.ret THEN deleted \cup {task_id} ELSE deleted
    /\ UNCHANGED <<task_id_counter, now, returned>>

\* the effect of get_task(task_id)
DoGet(task_id) ==
    /\ last' = Call("get_task", task_id, PyNone, StatusNonStr, "none",
                    get_task(tasks, task_id), FALSE, <<>>)
    /\ UNCHANGED <<tasks, task_id_counter, now, returned, deleted>>

\* the effect of get_all_tasks()
DoGetAll ==
    /\ last' = Call("get_all_tasks", 0, PyNone, StatusNonStr, "none", NoTask, FALSE,
                    get_all_tasks(tasks))
    /\ UNCHANGED <<tasks, task_id_counter, now, returned, deleted>>

Direct == request' = NoRequest /\ response' = NoResponse /\ UNCHANGED threads

create_task ==
    \E title \in TitleInputs, description \in DescriptionInputs :
        \E t1 \in ReadsIf(CreateSucceeds(title, description), now) :
        \E t2 \in ReadsIf(CreateSucceeds(title, description), t1) :
            DoCreate(title, description, t1, t2) /\ Direct

update_task_status ==
    \E task_id \in IdInputs, status \in StatusInputs :
    \E t \in ReadsIf(UpdateSucceeds(task_id, status), now) :
        DoUpdate(task_id, status, t) /\ Direct

delete_task == \E task_id \in IdInputs : DoDelete(task_id) /\ Direct

get_task_call == \E task_id \in IdInputs : DoGet(task_id) /\ Direct

get_all_tasks_call == DoGetAll /\ Direct

StoreNext ==
    \/ create_task
    \/ update_task_status
    \/ delete_task
    \/ get_task_call
    \/ get_all_tasks_call

Spec == Init /\ [][StoreNext]_vars

----------------------------------------------------------------------------
(* The HTTP facade: requests *)

\* a parsed JSON value: an object (keys: its keys), an array (keys: its string
\* elements), a number or null
Json(jtype, keys, title, description, status) ==
    [jtype |-> jtype, keys |-> keys, title |-> title, description |-> description,
     status |-> status]

JsonNull == Json("null", {}, PyNone, PyNone, StatusNonStr)

\* {}
JsonEmptyObject == Json("object", {}, PyNone, PyNone, StatusNonStr)

\* {"other": 1}
JsonOtherObject == Json("object", {"other"}, PyNone, PyNone, StatusNonStr)

\* {"title": title}
JsonTitle(title) == Json("object", {"title"}, title, PyNone, StatusNonStr)

\* {"title": title, "description": description}
JsonTitleDescription(title, description) ==
    Json("object", {"title", "description"}, title, description, StatusNonStr)

\* {"status": status}
JsonStatus(status) == Json("object", {"status"}, PyNone, PyNone, status)

\* ["status"]
JsonArray == Json("array", {"status"}, PyNone, PyNone, StatusNonStr)

\* bool(data)
JsonTruthy(data) ==
    CASE data.jtype \in {"object", "array"} -> data.keys # {}
      [] data.jtype = "null" -> FALSE
      [] data.jtype = "number" -> TRUE

\* the body of a request: nothing at all, text sent without a JSON content type,
\* a JSON content type with text that does not parse, or a JSON document
Body(kind, data) == [kind |-> kind, data |-> data]

NoBody == Body("no_body", JsonNull)
NonJsonBody == Body("non_json", JsonNull)
MalformedBody == Body("malformed", JsonNull)
JsonBody(data) == Body("json", data)

\* request.is_json: the content type says JSON
IsJson(body) == body.kind \in {"malformed", "json"}

\* request.get_json(): raises (BadRequest, UnsupportedMediaType) or returns the
\* parsed document.  A body that does not parse always raises.  Without a JSON
\* content type Flask 2.1 and later raise and earlier versions return None;
\* `lenient` says which the installed Flask does.
GetJson(body, lenient) ==
    IF body.kind = "json" THEN [raised |-> FALSE, data |-> body.data]
    ELSE IF body.kind = "malformed" THEN [raised |-> TRUE, data |-> JsonNull]
    ELSE [raised |-> ~lenient, data |-> JsonNull]

\* the titles sent to POST /tasks: '', ' a ', null, 123
PostTitles == {PyStr(<<>>), PyStr(<<" ", "a", " ">>), PyNone, PyInt(123)}

\* the bodies sent to POST /tasks
PostBodies ==
    {NoBody, NonJsonBody, MalformedBody}
    \cup {JsonBody(d) : d \in {JsonNull, JsonEmptyObject, JsonOtherObject, JsonArray}}
    \cup {JsonBody(JsonTitle(t)) : t \in PostTitles}
    \cup {JsonBody(JsonTitleDescription(PyStr(<<" ", "a", " ">>), PyNone))}

\* the status values sent to PUT /tasks/<id>/status
PutStatuses == {StatusStr(w) : w \in VALID_STATUSES \cup {"bogus"}} \cup {StatusNonStr}

\* the bodies sent to PUT /tasks/<id>/status
PutBodies ==
    {NoBody, MalformedBody}
    \cup {JsonBody(d) : d \in {JsonEmptyObject, JsonOtherObject, JsonArray}}
    \cup {JsonBody(JsonStatus(st)) : st \in PutStatuses}

Request(method, path, task_id, body, lenient) ==
    [method |-> method, path |-> path, task_id |-> task_id, body |-> body,
     lenient |-> lenient]

----------------------------------------------------------------------------
(* The HTTP facade: responses *)

\* faulty variant: the success field forgotten
ErrorBodyNoSuccess(message) == [error |-> message]

\* jsonify({'success': False, 'error': message})
ErrorBody(message) == [success |-> FALSE, error |-> message]

\* jsonify({'success': True, 'task': task})
TaskBody(task) == [success |-> TRUE, task |-> task]

\* jsonify({'success': True, 'tasks': tasks, 'count': len(tasks)})
TasksBody(ts) == [success |-> TRUE, tasks |-> ts, count |-> Len(ts)]

\* jsonify({'success': True, 'message': ...})
MessageBody(task_id) == [success |-> TRUE, message |-> <<"Task", task_id, "deleted successfully">>]

\* the payload of GET /health
HealthBody(t) ==
    [status |-> "healthy", timestamp |-> t, version |-> "1.0.0",
     environment |-> "production"]

\* str(e) of the ValueError a TaskManager call raised
ValueErrorMessage(op) ==
    IF op = "create_task" THEN "Task title must be a non-empty string"
    ELSE "Status must be one of: ['pending', 'in_progress', 'completed']"

InternalError == ErrorBody("Internal server error")

Reply(req, code, body) ==
    /\ request' = req
    /\ response' = [code |-> code, body |-> body]
    /\ UNCHANGED threads

\* the handler answers without calling the TaskManager
NoStoreCall ==
    /\ last' = NoCall
    /\ UNCHANGED <<tasks, task_id_counter, now, returned, deleted>>

----------------------------------------------------------------------------
(* The HTTP facade: routes *)

\* GET /health
health_check ==
    \E t \in Reads(now) :
        /\ Reply(Request("GET", "/health", 0, NoBody, FALSE), 200, HealthBody(t))
        /\ now' = t
        /\ last' = NoCall
        /\ UNCHANGED <<tasks, task_id_counter, returned, deleted>>

\* GET /tasks
get_tasks ==
    /\ DoGetAll
    /\ Reply(Request("GET", "/tasks", 0, NoBody, FALSE), 200,
             TasksBody(get_all_tasks(tasks)))

\* data.get('title')
DataTitle(data) == IF "title" \in data.keys THEN data.title ELSE PyNone

\* data.get('description', '')
DataDescription(data) ==
    IF "description" \in data.keys THEN data.description ELSE PyStr(<<>>)

\* POST /tasks reaches task_manager.create_task
PostCallsCreate(body) ==
    /\ IsJson(body)
    /\ ~GetJson(body, FALSE).raised
    /\ JsonTruthy(body.data)
    /\ body.data.jtype = "object"

\* the answer of POST /tasks to the outcome of create_task
CreateReply(req, out) ==
    IF out.exc = "none" THEN Reply(req, 201, TaskBody(out.ret))
    ELSE IF out.exc = "ValueError"
    THEN Reply(req, 400, ErrorBody(ValueErrorMessage("create_task")))
    ELSE Reply(req, 500, InternalError)

\* POST /tasks
app_create_task ==
    \E body \in PostBodies :
        LET req == Request("POST", "/tasks", 0, body, FALSE)
            data == body.data
            reads == PostCallsCreate(body)
                        /\ CreateSucceeds(DataTitle(data), DataDescription(data))
        IN  \E t1 \in ReadsIf(reads, now) : \E t2 \in ReadsIf(reads, t1) :
            IF ~IsJson(body)
            THEN /\ Reply(req, 400, ErrorBody("Content-Type must be application/json"))
                 /\ NoStoreCall
            ELSE IF GetJson(body, FALSE).raised
            THEN Reply(req, 500, InternalError) /\ NoStoreCall
            ELSE IF ~JsonTruthy(data)
            THEN Reply(req, 400, ErrorBody("No data provided")) /\ NoStoreCall
            ELSE IF data.jtype # "object"
            THEN Reply(req, 500, InternalError) /\ NoStoreCall
            ELSE /\ DoCreate(DataTitle(data), DataDescription(data), t1, t2)
                 /\ CreateReply(req, CreateOutcome(DataTitle(data),
                                                   DataDescription(data), t1, t2))

\* GET /tasks/<int:task_id>
app_get_task ==
    \E task_id \in IdInputs :
        LET req == Request("GET", "/tasks/<id>", task_id, NoBody, FALSE) IN
        /\ DoGet(task_id)
        /\ IF get_task(tasks, task_id) = NoTask
           THEN Reply(req, 404, ErrorBody("Task not found"))
           ELSE Reply(req, 200, TaskBody(get_task(tasks, task_id)))

\* PUT /tasks/<id>/status reaches task_manager.update_task_status
PutCallsUpdate(body, lenient) ==
    /\ ~GetJson(body, lenient).raised
    /\ JsonTruthy(GetJson(body, lenient).data)
    /\ "status" \in body.data.keys
    /\ body.data.jtype = "object"

\* the answer of PUT /tasks/<id>/status to the outcome of update_task_status
UpdateReply(req, out) ==
    IF out.exc = "ValueError"
    THEN Reply(req, 400, ErrorBody(ValueErrorMessage("update_task_status")))
    ELSE IF out.ret = NoTask THEN Reply(req, 404, ErrorBody("Task not found"))
    ELSE Reply(req, 200, TaskBody(out.ret))

\* PUT /tasks/<int:task_id>/status
app_update_task_status ==
    \E task_id \in IdInputs, body \in PutBodies :
    \E lenient \in IF IsJson(body) THEN {FALSE} ELSE BOOLEAN :
        LET req == Request("PUT", "/tasks/<id>/status", task_id, body, lenient)
            got == GetJson(body, lenient)
            reads == PutCallsUpdate(body, lenient)
                        /\ UpdateSucceeds(task_id, body.data.status)
        IN  \E t \in ReadsIf(reads, now) :
            IF got.raised
            THEN Reply(req, 500, InternalError) /\ NoStoreCall
            ELSE IF ~JsonTruthy(got.data) \/ "status" \notin got.data.keys
            THEN Reply(req, 400, ErrorBody("Status is required")) /\ NoStoreCall
            ELSE IF got.data.jtype # "object"
            THEN Reply(req, 500, InternalError) /\ NoStoreCall
            ELSE /\ DoUpdate(task_id, got.data.status, t)
                 /\ UpdateReply(req, UpdateOutcome(task_id, got.data.status, t))

\* DELETE /tasks/<int:task_id>
app_delete_task ==
    \E task_id \in IdInputs :
        LET req == Request("DELETE", "/tasks/<id>", task_id, NoBody, FALSE) IN
        /\ DoDelete(task_id)
        /\ IF DeleteOutcome(task_id).ret
           THEN Reply(req, 200, MessageBody(task_id))
           ELSE Reply(req, 404, ErrorBody("Task not found"))

\* the 404 handler: a path no route matches
not_found ==
    \E method \in {"GET", "POST"} :
        /\ Reply(Request(method, "/invalid-endpoint", 0, NoBody, FALSE), 404,
                 ErrorBody("Endpoint not found"))
        /\ NoStoreCall

HttpNext ==
    \/ health_check
    \/ get_tasks
    \/ app_create_task
    \/ app_get_task
    \/ app_update_task_status
    \/ app_delete_task
    \/ not_found

HttpSpec == Init /\ [][HttpNext]_vars

----------------------------------------------------------------------------
(* create_task called from concurrent threads: the server runs with            *)
(* threaded=True and the TaskManager takes no lock, so the steps of two calls *)
(* interleave.  Each thread makes one call with a valid title.                *)

\* the titles the concurrent calls pass: ' a ', ' b '
ThreadTitles == {PyStr(<<" ", "a", " ">>), PyStr(<<" ", "b", " ">>)}

\* lines 79-86: the dictionary is built; it reads self.task_id_counter and the
\* clock
t_build(t) ==
    /\ threads[t].pc = "idle"
    /\ \E title \in ThreadTitles : \E t1 \in Reads(now) : \E t2 \in Reads(t1) :
          /\ threads' = [threads EXCEPT ![t] =
                            [pc |-> "append",
                             task |-> NewTask(title, PyStr(<<>>), t1, t2),
                             tmp |-> 0]]
          /\ now' = t2
    /\ UNCHANGED <<tasks, task_id_counter, last, request, response, returned, deleted>>

\* line 88: self.tasks.append(task)
t_append(t) ==
    /\ threads[t].pc = "append"
    /\ tasks' = Append(tasks, threads[t].task)
    /\ threads' = [threads EXCEPT ![t].pc = "load"]
    /\ UNCHANGED <<task_id_counter, now, last, request, response, returned, deleted>>

\* line 89, self.task_id_counter += 1: the attribute is loaded
t_load(t) ==
    /\ threads[t].pc = "load"
    /\ threads' = [threads EXCEPT ![t].pc = "store", ![t].tmp = task_id_counter]
    /\ UNCHANGED <<tasks, task_id_counter, now, last, request, response, returned,
                   deleted>>

\* line 89, self.task_id_counter += 1: the sum is stored
t_store(t) ==
    /\ threads[t].pc = "store"
    /\ task_id_counter' = NextCounter(threads[t].tmp)
    /\ threads' = [threads EXCEPT ![t].pc = "return"]
    /\ UNCHANGED <<tasks, now, last, request, response, returned, deleted>>

\* line 91: return task
t_return(t) ==
    /\ threads[t].pc = "return"
    /\ returned' = Append(returned, threads[t].task.id)
    /\ last' = Call("create_task", 0, threads[t].task.title, StatusNonStr, "none",
                    threads[t].task, FALSE, <<>>)
    /\ threads' = [threads EXCEPT ![t].pc = "done"]
    /\ UNCHANGED <<tasks, task_id_counter, now, request, response, deleted>>

ThreadsNext ==
    \E t \in Threads :
        \/ t_build(t)
        \/ t_append(t)
        \/ t_load(t)
        \/ t_store(t)
        \/ t_return(t)

ThreadsSpec == Init /\ [][ThreadsNext]_vars

----------------------------------------------------------------------------
(* Properties of the TaskManager, checked under Spec *)

\* a task with this id is in the list ts
Stored(ts, task_id) == \E i \in 1..Len(ts) : ts[i].id = task_id

\* the ids successful creates have returned
Returned == {returned[k] : k \in 1..Len(returned)}

\* the step just taken was a successful call of op
Succeeded(op) == last'.op = op /\ last'.exc = "none"

\* C1: the k-th successful create_task returns id k, whatever updates and
\* deletions came in between: ids start at 1, grow by one per successful
\* create and are never assigned again after a deletion.
C1_IdsSequential == \A k \in 1..Len(returned) : returned[k] = k

\* C1 witness: a create that succeeded after the deletion of task 1 and got id 2
C1_Witness ==
    /\ last.op = "create_task" /\ last.exc = "none" /\ last.ret.id = 2
    /\ 1 \in deleted
    /\ Len(tasks) = 1

\* C2: every stored task has a title that is neither empty nor whitespace-only.
C2_TitlesNotBlank ==
    \A i \in 1..Len(tasks) :
        /\ tasks[i].title.chars # <<>>
        /\ \E j \in 1..Len(tasks[i].title.chars) :
               tasks[i].title.chars[j] \notin Whitespace

\* the title is '', None or not a string
BadTitle(title) == title.type # "str" \/ title.chars = <<>>

\* C3: create_task with an empty, null or non-string title raises ValueError
\* and leaves the task list and the id counter as they were.
C3_BadTitleRejected ==
    [][(last'.op = "create_task" /\ BadTitle(last'.title))
         => /\ last'.exc = "ValueError"
            /\ tasks' = tasks
            /\ task_id_counter' = task_id_counter]_vars

\* C3 witness: create_task(123) has raised ValueError on a store holding a task
C3_Witness ==
    /\ last.op = "create_task" /\ last.title = PyInt(123) /\ last.exc = "ValueError"
    /\ tasks # <<>>
    /\ task_id_counter = 2

\* C4, in every state: the status of every stored task is one of the three words
C4_StatusValid == \A i \in 1..Len(tasks) : tasks[i].status \in VALID_STATUSES

\* C4, in every step: a task appended by create_task is pending, and the status
\* of a task that stays in the list changes only in a successful
\* update_task_status of that task
C4_StatusStep ==
    /\ Succeeded("create_task") =>
          /\ last'.ret.status = "pending"
          /\ tasks'[Len(tasks')].status = "pending"
    /\ \A i \in 1..Len(tasks), j \in 1..Len(tasks') :
          (tasks[i].id = tasks'[j].id /\ tasks[i].status # tasks'[j].status)
             => /\ Succeeded("update_task_status")
                /\ last'.task_id = tasks[i].id
                /\ last'.ret # NoTask

\* C4: the status of every stored task is always pending, in_progress or
\* completed; it is pending right after creation and changes only through a
\* successful update_task_status.
C4_Status == []C4_StatusValid /\ [][C4_StatusStep]_vars

\* C4 witness: a successful update has just made a task completed
C4_Witness ==
    /\ last.op = "update_task_status" /\ last.exc = "none"
    /\ last.ret # NoTask /\ last.ret.status = "completed"
    /\ \E i \in 1..Len(tasks) : tasks[i].status = "completed"

\* C5: update_task_status with a status outside the three words raises
\* ValueError for every id, stored or not, and changes no task.
C5_BadStatusRejected ==
    [][(last'.op = "update_task_status"
          /\ ~(last'.status.type = "str"
               /\ last'.status.word \in {"pending", "in_progress", "completed"}))
         => /\ last'.exc = "ValueError"
            /\ tasks' = tasks]_vars

\* C5 witness: update_task_status has raised ValueError for an id that no
\* task has while another task is stored
C5_Witness ==
    /\ last.op = "update_task_status" /\ last.exc = "ValueError"
    /\ last.status = StatusStr("bogus")
    /\ ~Stored(tasks, last.task_id)
    /\ tasks # <<>>

\* C6: update_task_status with a valid status and an id no task has returns
\* None, raises nothing and leaves the task list and the id counter unchanged.
C6_UpdateNotFound ==
    [][(last'.op = "update_task_status"
          /\ last'.status.type = "str"
          /\ last'.status.word \in {"pending", "in_progress", "completed"}
          /\ ~Stored(tasks, last'.task_id))
         => /\ last'.exc = "none"
            /\ last'.ret = NoTask
            /\ tasks' = tasks
            /\ task_id_counter' = task_id_counter]_vars

\* C6 witness: update_task_status(id, 'completed') has returned None for the id
\* of a deleted task while another task is stored
C6_Witness ==
    /\ last.op = "update_task_status" /\ last.exc = "none" /\ last.ret = NoTask
    /\ last.status = StatusStr("completed")
    /\ last.task_id \in deleted
    /\ tasks # <<>>

\* C7, in every state: no deleted id is found again, and deleting it again
\* returns False
C7_DeletedStayDeleted ==
    \A task_id \in deleted :
        /\ get_task(tasks, task_id) = NoTask
        /\ ~Stored(tasks, task_id)
        /\ DeleteOutcome(task_id).ret = FALSE

\* C7, in every step: delete_task returns True exactly when the id is stored,
\* and then the list loses exactly the task with that id
C7_DeleteStep ==
    last'.op = "delete_task" =>
        /\ last'.ok = Stored(tasks, last'.task_id)
        /\ last'.ok => /\ ~Stored(tasks', last'.task_id)
                       /\ Len(tasks') = Len(tasks) - 1
                       /\ \A i \in 1..Len(tasks) :
                             tasks[i].id # last'.task_id
                                => \E j \in 1..Len(tasks') : tasks'[j] = tasks[i]
        /\ ~last'.ok => tasks' = tasks

\* C7: delete_task(id) returns True exactly when a task with that id is stored
\* and removes it for good: from then on get_task(id) finds nothing and
\* delete_task(id) returns False, whatever is created later.
C7_Delete == []C7_DeletedStayDeleted /\ [][C7_DeleteStep]_vars

\* C7 witness: the second delete_task(1) has returned False after a later create
C7_Witness ==
    /\ last.op = "delete_task" /\ last.task_id = 1 /\ ~last.ok
    /\ 1 \in deleted
    /\ Len(returned) = 2
    /\ tasks # <<>>

\* C8: get_task finds nothing for an id no successful create returned, and finds
\* the task with that id for an id that was returned and not deleted since.
C8_GetTask ==
    /\ \A task_id \in 0..(MaxCreates + 1) :
          /\ task_id \notin Returned => get_task(tasks, task_id) = NoTask
          /\ task_id \in Returned \ deleted =>
                /\ get_task(tasks, task_id).id = task_id
                /\ \E i \in 1..Len(tasks) : tasks[i] = get_task(tasks, task_id)
    /\ last.op = "get_task" =>
          /\ last.task_id \notin Returned => last.ret = NoTask
          /\ last.task_id \in Returned \ deleted => last.ret.id = last.task_id

\* C8 witness: get_task(2) has returned task 2 after task 1 was deleted
C8_Witness ==
    /\ last.op = "get_task" /\ last.task_id = 2 /\ last.ret # NoTask
    /\ last.ret.id = 2
    /\ 1 \in deleted

Updated == Succeeded("update_task_status") /\ last'.ret # NoTask

\* C13, in every state: no task was updated before it was created
C13_UpdatedAfterCreated ==
    \A i \in 1..Len(tasks) : tasks[i].updated_at >= tasks[i].created_at

\* C13, in every step: the clock does not go back; create_task stamps both times,
\* created_at first; created_at never changes; updated_at becomes the time of
\* the call in a successful update_task_status of that task and changes in no
\* other step
C13_TimeStep ==
    /\ now' >= now
    /\ Succeeded("create_task") =>
          /\ now <= last'.ret.created_at
          /\ last'.ret.created_at <= last'.ret.updated_at
          /\ last'.ret.updated_at = now'
          /\ tasks'[Len(tasks')] = last'.ret
    /\ \A i \in 1..Len(tasks), j \in 1..Len(tasks') :
          tasks[i].id = tasks'[j].id =>
             /\ tasks'[j].created_at = tasks[i].created_at
             /\ IF Updated /\ last'.task_id = tasks[i].id
                THEN tasks'[j].updated_at = now'
                ELSE tasks'[j].updated_at = tasks[i].updated_at

\* C13: with a clock that never goes back, updated_at >= created_at for every
\* stored task at all times: both are stamped at creation, created_at never
\* changes, and updated_at is replaced by the current time in every successful
\* status change and in no other step.
C13_Timestamps == []C13_UpdatedAfterCreated /\ [][C13_TimeStep]_vars

\* C13 witness: a status change has moved updated_at past created_at
C13_Witness ==
    /\ last.op = "update_task_status" /\ last.exc = "none" /\ last.ret # NoTask
    /\ \E i \in 1..Len(tasks) :
          /\ tasks[i].id = last.task_id
          /\ tasks[i].updated_at > tasks[i].created_at
          /\ tasks[i].updated_at = now

\* C14: a successful update_task_status(id, s) changes the status and the
\* updated_at of the task with that id and nothing else: not its id, title,
\* description or created_at, no other task, not the order or the length of
\* the list, not the id counter.
C14_UpdateFrame ==
    [][Updated =>
         /\ task_id_counter' = task_id_counter
         /\ Len(tasks') = Len(tasks)
         /\ \A i \in 1..Len(tasks) :
               IF tasks[i].id = last'.task_id
               THEN /\ tasks'[i].id = tasks[i].id
                    /\ tasks'[i].title = tasks[i].title
                    /\ tasks'[i].description = tasks[i].description
                    /\ tasks'[i].created_at = tasks[i].created_at
                    /\ tasks'[i].status = last'.status.word
                    /\ last'.ret = tasks'[i]
               ELSE tasks'[i] = tasks[i]]_vars

\* C14 witness: the first of two stored tasks has just been set to in_progress
C14_Witness ==
    /\ last.op = "update_task_status" /\ last.exc = "none" /\ last.ret # NoTask
    /\ last.task_id = 1
    /\ Len(tasks) = 2
    /\ tasks[1].status = "in_progress" /\ tasks[2].status = "pending"

----------------------------------------------------------------------------
(* Properties of the HTTP facade, checked under HttpSpec *)

\* the keys of a response body
Keys(body) == DOMAIN body

\* the error messages the handlers send
ErrorMessages ==
    {"Internal server error", "Content-Type must be application/json",
     "No data provided", "Task not found", "Status is required",
     "Endpoint not found", "Task title must be a non-empty string",
     "Status must be one of: ['pending', 'in_progress', 'completed']"}

\* the body carries a success boolean and with it a payload or an error message
Envelope(body) ==
    /\ "success" \in Keys(body)
    /\ body.success \in BOOLEAN
    /\ IF body.success
       THEN Keys(body) \cap {"task", "tasks", "message"} # {}
       ELSE "error" \in Keys(body) /\ body.error \in ErrorMessages

IsPost == request.method = "POST" /\ request.path = "/tasks"

\* the POST body is one of: no body, no JSON content type, JSON that does not
\* parse, a JSON object without title, a JSON object with the title ''
BadPostBody ==
    \/ request.body.kind \in {"no_body", "non_json", "malformed"}
    \/ /\ request.body.kind = "json"
       /\ request.body.data.jtype = "object"
       /\ \/ "title" \notin request.body.data.keys
          \/ request.body.data.title = PyStr(<<>>)

\* this step stored a task
CreatedNow == last.op = "create_task" /\ last.exc = "none"

\* C11: POST /tasks with no body, without a JSON content type, with JSON that
\* does not parse, with a JSON object without title or with the title ''
\* answers 400 with success false and stores no task; never 500 or 201.
C11_BadPostIs400 ==
    (IsPost /\ BadPostBody) =>
        /\ response.code = 400
        /\ response.body.success = FALSE
        /\ ~CreatedNow
        /\ task_id_counter = Len(returned) + 1

\* the step served PUT /tasks/<id>/status
IsPut == request.method = "PUT" /\ request.path = "/tasks/<id>/status"

\* the PUT body is unusable or is a JSON object without a status field
PutWithoutStatus ==
    \/ request.body.kind \in {"no_body", "non_json", "malformed"}
    \/ /\ request.body.kind = "json"
       /\ request.body.data.jtype = "object"
       /\ "status" \notin request.body.data.keys

\* the PUT body is a JSON object with a status field
PutWithStatus ==
    /\ request.body.kind = "json"
    /\ request.body.data.jtype = "object"
    /\ "status" \in request.body.data.keys

\* the status sent is one of the three words
PutStatusValid ==
    /\ request.body.data.status.type = "str"
    /\ request.body.data.status.word \in {"pending", "in_progress", "completed"}

\* this step changed a task
UpdatedNow == last.op = "update_task_status" /\ last.exc = "none" /\ last.ret # NoTask

\* C12: PUT /tasks/<id>/status answers 400 without a usable body or a status
\* field, 400 to a status outside the three words (whether or not the id is
\* stored), 404 to a valid status and an id no task has, and 200 with the
\* updated task otherwise; never 500, and only the 200 answer goes with a
\* change of the store.
C12_PutAnswers ==
    IsPut =>
        /\ PutWithoutStatus => response.code = 400
        /\ (PutWithStatus /\ ~PutStatusValid) => response.code = 400
        /\ (PutWithStatus /\ PutStatusValid /\ ~Stored(tasks, request.task_id))
              => response.code = 404
        /\ (PutWithStatus /\ PutStatusValid /\ Stored(tasks, request.task_id))
              => /\ response.code = 200
                 /\ response.body.task.id = request.task_id
                 /\ response.body.task.status = request.body.data.status.word
        /\ (PutWithoutStatus \/ PutWithStatus) => response.code # 500
        /\ UpdatedNow => response.code = 200

----------------------------------------------------------------------------
(* Properties of concurrent calls, checked under ThreadsSpec *)

\* no call is between its first and its last step
Quiescent == \A t \in Threads : threads[t].pc \in {"idle", "done"}

\* C15: however the steps of concurrent create_task calls interleave, no two
\* stored tasks share an id and no increment of the counter is lost.
C15_UniqueIds ==
    /\ \A i \in 1..Len(tasks), j \in 1..Len(tasks) :
          i # j => tasks[i].id # tasks[j].id
    /\ Quiescent => task_id_counter = 1 + Len(tasks)

====
